---- MODULE Spec2Model ----
(***************************************************************************)
(* Element-composition layer of crates/gpui3/src/elements/nested.rs:       *)
(* a layout node wrapped by a styled wrapper, a hoverable wrapper and a    *)
(* clickable wrapper (outermost), driven by frames (layout, then paint)    *)
(* and by pointer events dispatched to the listeners the last paint        *)
(* registered.  The element instances and their cascade slots live across  *)
(* frames; the clickable wrapper's state is handed from frame to frame by  *)
(* the window, keyed by the element's identity.                            *)
(*                                                                         *)
(* Option<T> is modelled as a sequence: <<>> is None, <<v>> is Some(v).    *)
(***************************************************************************)
EXTENDS Integers, Sequences, FiniteSets, TLC

VARIABLES
    pc,              \* "build" (builder calls allowed), "laidout" (between layout and paint), "idle"
    children,        \* LayoutNodeState.children
    listeners,       \* ClickableElement.listeners
    hover_style,     \* HoverableElement.hover_style
    active_style,    \* ClickableElement.active_style
    group,           \* HoverableElement.group : Option<SharedString>
    hover_slot,      \* HoverableElement.cascade_slot
    click_slot,      \* ClickableElement.cascade_slot
    style_cascade,   \* LayoutNodeState.style_cascade
    computed_style,  \* LayoutNodeState.computed_style : Option<Style>
    hovered,         \* HoverableElement.hovered : Arc<AtomicBool>
    element_state,   \* Option<ClickableElementState>, persisted per element identity
    cells,           \* heap of Arc<Mutex<Option<MouseDownEvent>>> cells
    mouse_listeners, \* closures registered by cx.on_mouse_event in the last paint
    mouse_position,  \* cx.mouse_position()
    group_registry,  \* result of group_bounds(group, cx)
    inflight,        \* Option<event> : event whose capture phase ran, bubble phase pending
    held_press,      \* Option<press> : last press inside the element not yet followed by a release
    notified,        \* cx.notify() was called since the last frame started
    clicks,          \* click listener invocations made by the current event dispatch
    layout_trace,    \* calls made by the last layout, in order
    paint_trace,     \* calls made by the last paint, in order
    lock_owner,      \* Option<call stack> : holder of the mouse-down record's mutex
    stack,           \* per call stack: the code path it runs and the steps it has left
    words,           \* memory of the mouse-down record, one word per coordinate
    observed,        \* per call stack: Option<value> its last read of the record returned
    registered       \* kind of the closure the last paint of the clickable wrapper registered

vars == <<pc, children, listeners, hover_style, active_style, group, hover_slot,
          click_slot, style_cascade, computed_style, hovered, element_state,
          cells, mouse_listeners, mouse_position, group_registry, inflight,
          held_press, notified, clicks, layout_trace, paint_trace,
          lock_owner, stack, words, observed, registered>>

\* the variables of the frame-level model and of the lock-level model
element_vars == <<pc, children, listeners, hover_style, active_style, group,
                  hover_slot, click_slot, style_cascade, computed_style, hovered,
                  element_state, cells, mouse_listeners, mouse_position,
                  group_registry, inflight, held_press, notified, clicks,
                  layout_trace, paint_trace>>
lock_vars == <<lock_owner, stack, words, observed, registered>>

(***************************************************************************)
(* Bounds of the model                                                     *)
(***************************************************************************)
MaxChildren == 2
MaxListeners == 2


(***************************************************************************)
(* Geometry                                                                *)
(***************************************************************************)
\* two points inside the element's bounds, one outside (inside the group's bounds)
Points == {<<50, 50>>, <<60, 60>>, <<150, 150>>}
MovePoints == {<<50, 50>>, <<150, 150>>}

ElementBounds == [x |-> 0, y |-> 0, w |-> 100, h |-> 100]
GroupBounds == [x |-> 100, y |-> 100, w |-> 100, h |-> 100]

contains_point(b, p) ==
    /\ p[1] >= b.x /\ p[1] <= b.x + b.w
    /\ p[2] >= b.y /\ p[2] <= b.y + b.h

(***************************************************************************)
(* Styles, refinements and the cascade                                     *)
(***************************************************************************)
Fields == {"background", "border"}
Unset == "unset"
FieldValues == {"hover", "active"}

StyleRefinements == [Fields -> FieldValues \cup {Unset}]
EmptyRefinement == [f \in Fields |-> Unset]
DefaultStyle == [f \in Fields |-> "default"]

\* Refineable::refine / refined: fields set in r override those of base
refined(base, r) == [f \in Fields |-> IF r[f] # Unset THEN r[f] ELSE base[f]]

is_some(r) == \E f \in Fields : r[f] # Unset

\* one reserved slot per wrapper that owns a cascade_slot field
Slots == 1..2

CascadeSet(cascade, slot, value) == [cascade EXCEPT ![slot] = value]

\* mutant: an earlier slot overrides a later one
RECURSIVE MergedUpTo_EarlierWins(_, _)
MergedUpTo_EarlierWins(cascade, n) ==
    IF n = 0 THEN EmptyRefinement
    ELSE LET m == MergedUpTo_EarlierWins(cascade, n - 1)
         IN IF cascade[n] = <<>> THEN m ELSE refined(cascade[n][1], m)

RECURSIVE MergedUpTo(_, _)
MergedUpTo(cascade, n) ==
    IF n = 0 THEN EmptyRefinement
    ELSE LET m == MergedUpTo(cascade, n - 1)
         IN IF cascade[n] = <<>> THEN m ELSE refined(m, cascade[n][1])

Merged(cascade) == MergedUpTo(cascade, Len(cascade))

\* Styled for LayoutNodeState :: computed_style  (get_or_insert_with)
ComputedStyleRead(cached, cascade) ==
    IF cached # <<>> THEN cached
    ELSE <<refined(DefaultStyle, Merged(cascade))>>

(***************************************************************************)
(* Events                                                                  *)
(***************************************************************************)
Events == [type : {"MouseDown", "MouseUp"}, position : Points]
          \cup [type : {"MouseMove"}, position : MovePoints]

Range(s) == {s[i] : i \in 1..Len(s)}

RECURSIVE Reverse(_)
Reverse(s) == IF s = <<>> THEN <<>> ELSE Append(Reverse(Tail(s)), Head(s))

\* call stacks that reach the mouse-down record: the frame (layout, then
\* paint), an invocation of the press closure, an invocation of the release closure
Stacks == {"frame", "press", "release"}

\* Option<MouseDownEvent> in memory: None, and Some(down), one word per coordinate
EmptyWords == <<0, 0>>
PressWords(down) == down.position

\* no call stack has run yet, the record is empty and unlocked
InitRecordAccess ==
    /\ lock_owner = <<>>
    /\ stack = [t \in Stacks |-> [path |-> "none", program |-> <<>>, event |-> <<>>]]
    /\ words = EmptyWords
    /\ observed = [t \in Stacks |-> <<>>]
    /\ registered = "none"

(***************************************************************************)
(* Initial state: the wrappers as constructed, before any builder call     *)
(***************************************************************************)
Init ==
    /\ pc = "build"
    /\ children = <<>>
    /\ listeners = <<>>
    /\ hover_style = EmptyRefinement
    /\ active_style = EmptyRefinement
    /\ group \in {<<>>, <<"g">>}
    /\ hover_slot \in Slots
    /\ click_slot \in Slots \ {hover_slot}
    /\ style_cascade = [s \in Slots |-> <<>>]
    /\ computed_style = <<>>
    /\ hovered = FALSE
    /\ element_state = <<>>
    /\ cells = <<>>
    /\ mouse_listeners = <<>>
    /\ mouse_position \in MovePoints
    /\ group_registry = <<>>
    /\ inflight = <<>>
    /\ held_press = <<>>
    /\ notified = FALSE
    /\ clicks = <<>>
    /\ layout_trace = <<>>
    /\ paint_trace = <<>>
    /\ InitRecordAccess

(***************************************************************************)
(* Builder operations                                                      *)
(***************************************************************************)
\* an element handed to child/children is identified by its position in the
\* order the elements were created
NewElements(have, n) == [i \in 1..n |-> have + i]

\* LayoutNode::child
child ==
    /\ pc = "build"
    /\ Len(children) < MaxChildren
    /\ children' = Append(children, NewElements(Len(children), 1)[1])
    /\ UNCHANGED <<lock_vars, pc, listeners, hover_style, active_style, group, hover_slot,
                   click_slot, style_cascade, computed_style, hovered,
                   element_state, cells, mouse_listeners, mouse_position,
                   group_registry, inflight, held_press, notified, clicks,
                   layout_trace, paint_trace>>

\* LayoutNode::children : pushes every element of the iterable, in order
childrenOp(n) ==
    /\ pc = "build"
    /\ Len(children) + n <= MaxChildren
    /\ children' = children \o NewElements(Len(children), n)
    /\ UNCHANGED <<lock_vars, pc, listeners, hover_style, active_style, group, hover_slot,
                   click_slot, style_cascade, computed_style, hovered,
                   element_state, cells, mouse_listeners, mouse_position,
                   group_registry, inflight, held_press, notified, clicks,
                   layout_trace, paint_trace>>

\* Clickable::on_click
on_click ==
    /\ pc = "build"
    /\ Len(listeners) < MaxListeners
    /\ listeners' = Append(listeners, Len(listeners) + 1)
    /\ UNCHANGED <<lock_vars, pc, children, hover_style, active_style, group, hover_slot,
                   click_slot, style_cascade, computed_style, hovered,
                   element_state, cells, mouse_listeners, mouse_position,
                   group_registry, inflight, held_press, notified, clicks,
                   layout_trace, paint_trace>>

\* Hoverable::hover : f mutates the hover refinement
hover ==
    /\ pc = "build"
    /\ hover_style = EmptyRefinement
    /\ hover_style' = [hover_style EXCEPT !["background"] = "hover"]
    /\ UNCHANGED <<lock_vars, pc, children, listeners, active_style, group, hover_slot,
                   click_slot, style_cascade, computed_style, hovered,
                   element_state, cells, mouse_listeners, mouse_position,
                   group_registry, inflight, held_press, notified, clicks,
                   layout_trace, paint_trace>>

\* Clickable::active : f mutates the active refinement
active ==
    /\ pc = "build"
    /\ active_style = EmptyRefinement
    /\ active_style' = [active_style EXCEPT !["background"] = "active"]
    /\ UNCHANGED <<lock_vars, pc, children, listeners, hover_style, group, hover_slot,
                   click_slot, style_cascade, computed_style, hovered,
                   element_state, cells, mouse_listeners, mouse_position,
                   group_registry, inflight, held_press, notified, clicks,
                   layout_trace, paint_trace>>

(***************************************************************************)
(* Layout                                                                  *)
(***************************************************************************)
LayoutIdOf(c) == <<"layout_id", c>>

\* mutant: the children are laid out last to first
LayoutChildren_Reversed(kids) ==
    [i \in 1..Len(kids) |-> [op |-> "child.layout", child |-> kids[Len(kids) + 1 - i],
                             layout_id |-> LayoutIdOf(kids[Len(kids) + 1 - i])]]

\* LayoutNodeState::layout, lines 67-71: children.iter_mut().map(child.layout)
LayoutChildren(kids) ==
    [i \in 1..Len(kids) |-> [op |-> "child.layout", child |-> kids[i],
                             layout_id |-> LayoutIdOf(kids[i])]]

\* LayoutNodeState::layout : the calls it makes, and the style cache after it
LayoutNodeLayout(kids, cached, cascade) ==
    LET calls == LayoutChildren(kids)
        layout_ids == [i \in 1..Len(calls) |-> calls[i].layout_id]
        cs == ComputedStyleRead(cached, cascade)
    IN [computed_style |-> cs,
        calls |-> calls \o <<[op |-> "request_layout", style |-> cs[1],
                              layout_ids |-> layout_ids]>>]

\* mutant: the record is not consulted
ClickableLayoutSetsActive_AnyPrior(prior, heap) == prior # <<>>

\* ClickableElement::layout, lines 298-303: the active refinement is written
\* when prior state exists and its record holds a press
ClickableLayoutSetsActive(prior, heap) ==
    /\ prior # <<>>
    /\ heap[prior[1].mouse_down] # <<>>

\* mutant: the returned state always gets a fresh record
ClickableLayoutState_AlwaysFresh(prior, heap) ==
    [state |-> <<[mouse_down |-> Len(heap) + 1, child_state |-> "unit"]>>,
     heap |-> Append(heap, <<>>)]

\* ClickableElement::layout, lines 308-323: the state it returns, and the heap
\* of records after it (Default::default() allocates an empty record)
ClickableLayoutState(prior, heap) ==
    IF prior # <<>>
    THEN [state |-> <<[mouse_down |-> prior[1].mouse_down, child_state |-> "unit"]>>,
          heap |-> heap]
    ELSE [state |-> <<[mouse_down |-> Len(heap) + 1, child_state |-> "unit"]>>,
          heap |-> Append(heap, <<>>)]

\* ClickableElement::layout
\* (StyledElement::layout and HoverableElement::layout delegate unchanged)
Layout ==
    /\ pc \in {"build", "idle"}
    /\ inflight = <<>>
    /\ LET sets == ClickableLayoutSetsActive(element_state, cells)
           cascade1 == IF sets
                       THEN CascadeSet(style_cascade, click_slot, <<active_style>>)
                       ELSE style_cascade
           set_calls == IF sets
                        THEN <<[op |-> "cascade.set", slot |-> click_slot,
                                value |-> <<active_style>>]>>
                        ELSE <<>>
           child_call == [op |-> "clickable.child.layout",
                          prior |-> IF element_state # <<>>
                                    THEN <<element_state[1].child_state>>
                                    ELSE <<>>]
           node == LayoutNodeLayout(children, computed_style, cascade1)
       IN /\ style_cascade' = cascade1
          /\ computed_style' = node.computed_style
          /\ layout_trace' = set_calls \o <<child_call>> \o node.calls
          /\ element_state' = ClickableLayoutState(element_state, cells).state
          /\ cells' = ClickableLayoutState(element_state, cells).heap
    /\ pc' = "laidout"
    /\ notified' = FALSE
    /\ UNCHANGED <<lock_vars, children, listeners, hover_style, active_style, group,
                   hover_slot, click_slot, hovered, mouse_listeners,
                   mouse_position, group_registry, inflight, held_press,
                   clicks, paint_trace>>

(***************************************************************************)
(* Paint                                                                   *)
(***************************************************************************)
\* the closures handed to cx.on_mouse_event, with what they capture
ReleaseListener(bounds, mouse_down, ls, cell) ==
    [kind |-> "MouseUp", bounds |-> bounds, mouse_down |-> <<mouse_down>>,
     listeners |-> ls, cell |-> cell]

PressListener(bounds, cell) ==
    [kind |-> "MouseDown", bounds |-> bounds, mouse_down |-> <<>>,
     listeners |-> <<>>, cell |-> cell]

MoveListener(target_bounds) ==
    [kind |-> "MouseMove", bounds |-> target_bounds, mouse_down |-> <<>>,
     listeners |-> <<>>, cell |-> 0]

\* mutant: a configured active style alone registers nothing
ClickableRegisters_ListenersOnly(ls, astyle) == ls # <<>>

\* ClickableElement::paint, line 334
ClickableRegisters(ls, astyle) == ls # <<>> \/ is_some(astyle)

\* ClickableElement::paint, lines 334-367: cascade after it, listener registered
ClickablePaint(bounds, ls, astyle, slot, cell, heap, cascade) ==
    IF ~ClickableRegisters(ls, astyle)
    THEN [cascade |-> cascade, registered |-> <<>>, calls |-> <<>>]
    ELSE IF heap[cell] # <<>>
         THEN [cascade |-> CascadeSet(cascade, slot, <<astyle>>),
               registered |-> <<ReleaseListener(bounds, heap[cell][1], ls, cell)>>,
               calls |-> <<[op |-> "cascade.set", slot |-> slot, value |-> <<astyle>>],
                           [op |-> "on_mouse_event", kind |-> "MouseUp"]>>]
         ELSE [cascade |-> cascade,
               registered |-> <<PressListener(bounds, cell)>>,
               calls |-> <<[op |-> "on_mouse_event", kind |-> "MouseDown"]>>]

\* mutant: the group is ignored
TargetBounds_SelfOnly(grp, registry, bounds) == bounds

\* HoverableElement::paint, lines 201-205
TargetBounds(grp, registry, bounds) ==
    IF grp # <<>> /\ registry # <<>> THEN registry[1] ELSE bounds

\* HoverableElement::paint, line 207
HoverContainment(target_bounds, position) == contains_point(target_bounds, position)

\* mutant: the slot is never cleared
HoverSlotValue_NeverCleared(is_hovered, hstyle) == <<hstyle>>

\* HoverableElement::paint, line 210: hovered.then_some(hover_style.clone())
HoverSlotValue(is_hovered, hstyle) == IF is_hovered THEN <<hstyle>> ELSE <<>>

\* HoverableElement::paint, lines 201-221
HoverablePaint(bounds, grp, registry, position, hstyle, slot, cascade) ==
    LET target_bounds == TargetBounds(grp, registry, bounds)
        is_hovered == HoverContainment(target_bounds, position)
        value == HoverSlotValue(is_hovered, hstyle)
    IN [cascade |-> CascadeSet(cascade, slot, value),
        hovered |-> is_hovered,
        registered |-> <<MoveListener(target_bounds)>>,
        calls |-> <<[op |-> "cascade.set", slot |-> slot, value |-> value],
                    [op |-> "hovered.store", value |-> is_hovered],
                    [op |-> "on_mouse_event", kind |-> "MouseMove"]>>]

\* mutant: the inner element is painted before the style
StyledPaint_ChildFirst(bounds, child_state, cached, cascade) ==
    LET cs == ComputedStyleRead(cached, cascade)
    IN [computed_style |-> cs,
        calls |-> <<[op |-> "styled.child.paint", bounds |-> bounds,
                     element_state |-> child_state],
                    [op |-> "style.paint", style |-> cs[1], bounds |-> bounds]>>]

\* StyledElement::paint, lines 134-135
StyledPaint(bounds, child_state, cached, cascade) ==
    LET cs == ComputedStyleRead(cached, cascade)
    IN [computed_style |-> cs,
        calls |-> <<[op |-> "style.paint", style |-> cs[1], bounds |-> bounds],
                    [op |-> "styled.child.paint", bounds |-> bounds,
                     element_state |-> child_state]>>]

\* LayoutNodeState::paint, lines 86-88
LayoutNodePaint(kids) ==
    [i \in 1..Len(kids) |-> [op |-> "child.paint", child |-> kids[i]]]

\* ClickableElement::paint, then its child chain:
\* HoverableElement::paint, StyledElement::paint, LayoutNodeState::paint
Paint ==
    /\ pc = "laidout"
    /\ LET bounds == ElementBounds
           cell == element_state[1].mouse_down
           click == ClickablePaint(bounds, listeners, active_style, click_slot,
                                   cell, cells, style_cascade)
           hov == HoverablePaint(bounds, group, group_registry, mouse_position,
                                 hover_style, hover_slot, click.cascade)
           sty == StyledPaint(bounds, element_state[1].child_state,
                              computed_style, hov.cascade)
       IN /\ style_cascade' = hov.cascade
          /\ hovered' = hov.hovered
          /\ computed_style' = sty.computed_style
          /\ mouse_listeners' = click.registered \o hov.registered
          /\ paint_trace' = click.calls
                            \o <<[op |-> "clickable.child.paint", bounds |-> bounds]>>
                            \o hov.calls
                            \o <<[op |-> "hoverable.child.paint", bounds |-> bounds]>>
                            \o sty.calls
                            \o LayoutNodePaint(children)
    /\ pc' = "idle"
    /\ UNCHANGED <<lock_vars, children, listeners, hover_style, active_style, group,
                   hover_slot, click_slot, element_state, cells, mouse_position,
                   group_registry, inflight, held_press, notified, clicks,
                   layout_trace>>

(***************************************************************************)
(* Event listeners (the closures of paint) and event dispatch              *)
(***************************************************************************)
\* mutant: the phase test of line 342 dropped
ReleaseFires_AnyPhase(bounds, up, phase) == contains_point(bounds, up.position)

\* release closure, line 342: the click listeners run
ReleaseFires(bounds, up, phase) ==
    phase = "Bubble" /\ contains_point(bounds, up.position)

\* release closure, lines 341-357
\* st = [cells, notified, clicks, hovered] : what the closures can reach
RunReleaseListener(l, up, phase, st) ==
    LET invoked == IF ReleaseFires(l.bounds, up, phase)
                   THEN [i \in 1..Len(l.listeners) |->
                            [listener |-> l.listeners[i],
                             down |-> l.mouse_down[1], up |-> up]]
                   ELSE <<>>
    IN [st EXCEPT !.cells[l.cell] = <<>>,
                  !.notified = TRUE,
                  !.clicks = st.clicks \o invoked]

\* mutant: the phase test of line 361 dropped
PressStores_AnyPhase(bounds, down, phase) ==
    contains_point(bounds, down.position)

\* press closure, line 361: the press is stored
PressStores(bounds, down, phase) ==
    phase = "Bubble" /\ contains_point(bounds, down.position)

\* press closure, lines 360-365
RunPressListener(l, down, phase, st) ==
    IF PressStores(l.bounds, down, phase)
    THEN [st EXCEPT !.cells[l.cell] = <<down>>, !.notified = TRUE]
    ELSE st

\* mutant: the closure reacts in the bubble phase instead of the capture phase
MoveNotifies_BubblePhase(target_bounds, move, phase, flag) ==
    phase = "Bubble" /\ contains_point(target_bounds, move.position) # flag

\* move closure, lines 216-217: a redraw is requested
MoveNotifies(target_bounds, move, phase, flag) ==
    phase = "Capture" /\ contains_point(target_bounds, move.position) # flag

\* mutant: the closure stores the fresh containment into the flag
RunMoveListener_StoresFlag(l, move, phase, st) ==
    IF MoveNotifies(l.bounds, move, phase, st.hovered)
    THEN [st EXCEPT !.notified = TRUE,
                    !.hovered = contains_point(l.bounds, move.position)]
    ELSE st

\* move closure, lines 215-221
RunMoveListener(l, move, phase, st) ==
    IF MoveNotifies(l.bounds, move, phase, st.hovered)
    THEN [st EXCEPT !.notified = TRUE]
    ELSE st

RunListener(l, ev, phase, st) ==
    IF l.kind # ev.type THEN st
    ELSE IF l.kind = "MouseUp" THEN RunReleaseListener(l, ev, phase, st)
    ELSE IF l.kind = "MouseDown" THEN RunPressListener(l, ev, phase, st)
    ELSE RunMoveListener(l, ev, phase, st)

RECURSIVE RunListeners(_, _, _, _)
RunListeners(ls, ev, phase, st) ==
    IF ls = <<>> THEN st
    ELSE RunListeners(Tail(ls), ev, phase, RunListener(Head(ls), ev, phase, st))

\* the window dispatches an event: capture phase, listeners in registration order
DispatchCapture(ev) ==
    /\ pc = "idle"
    /\ inflight = <<>>
    /\ LET st == RunListeners(mouse_listeners, ev, "Capture",
                              [cells |-> cells, notified |-> notified,
                               clicks |-> <<>>, hovered |-> hovered])
       IN /\ cells' = st.cells
          /\ hovered' = st.hovered
          /\ notified' = st.notified
          /\ clicks' = st.clicks
    /\ mouse_position' = IF ev.type = "MouseMove" THEN ev.position ELSE mouse_position
    /\ inflight' = <<ev>>
    /\ UNCHANGED <<lock_vars, pc, children, listeners, hover_style, active_style, group,
                   hover_slot, click_slot, style_cascade, computed_style,
                   element_state, mouse_listeners, group_registry,
                   held_press, layout_trace, paint_trace>>

\* ... then bubble phase, listeners in reverse registration order
DispatchBubble ==
    /\ pc = "idle"
    /\ inflight # <<>>
    /\ LET ev == inflight[1]
           st == RunListeners(Reverse(mouse_listeners), ev, "Bubble",
                              [cells |-> cells, notified |-> notified,
                               clicks |-> clicks, hovered |-> hovered])
       IN /\ cells' = st.cells
          /\ hovered' = st.hovered
          /\ notified' = st.notified
          /\ clicks' = st.clicks
          /\ held_press' = IF ev.type = "MouseUp" THEN <<>>
                           ELSE IF ev.type = "MouseDown"
                                   /\ contains_point(ElementBounds, ev.position)
                                THEN <<ev>>
                                ELSE held_press
    /\ inflight' = <<>>
    /\ UNCHANGED <<lock_vars, pc, children, listeners, hover_style, active_style, group,
                   hover_slot, click_slot, style_cascade, computed_style,
                   element_state, mouse_listeners, mouse_position,
                   group_registry, layout_trace, paint_trace>>

\* the bounds registered under the group name change between frames
SetGroupBounds ==
    /\ pc \in {"build", "idle"}
    /\ group # <<>>
    /\ inflight = <<>>
    /\ group_registry' = IF group_registry = <<>> THEN <<GroupBounds>> ELSE <<>>
    /\ UNCHANGED <<lock_vars, pc, children, listeners, hover_style, active_style, group,
                   hover_slot, click_slot, style_cascade, computed_style,
                   hovered, element_state, cells, mouse_listeners,
                   mouse_position, inflight, held_press, notified, clicks,
                   layout_trace, paint_trace>>

Next ==
    \/ child
    \/ \E n \in 1..MaxChildren : childrenOp(n)
    \/ on_click
    \/ hover
    \/ active
    \/ Layout
    \/ Paint
    \/ \E ev \in Events : DispatchCapture(ev)
    \/ DispatchBubble
    \/ SetGroupBounds

Spec == Init /\ [][Next]_vars

(***************************************************************************)
(* Vocabulary of the properties                                            *)
(***************************************************************************)
\* the mouse-down record of the element's persisted state
Record == IF element_state = <<>> THEN <<>> ELSE cells[element_state[1].mouse_down]

Inside(ev) == contains_point(ElementBounds, ev.position)

LayoutStep == pc # "laidout" /\ pc' = "laidout"
PaintStep == pc = "laidout" /\ pc' = "idle"
CaptureStep(type) == inflight = <<>> /\ inflight' # <<>> /\ inflight'[1].type = type
BubbleStep(type) == inflight # <<>> /\ inflight' = <<>> /\ inflight[1].type = type

Registered(kind) == \E i \in 1..Len(mouse_listeners) : mouse_listeners[i].kind = kind

\* every listener of ls invoked once, in registration order, with (down, up)
ClickOfEach(ls, down, up) ==
    [i \in 1..Len(ls) |-> [listener |-> ls[i], down |-> down, up |-> up]]

(***************************************************************************)
(* C1: a press inside the bounds followed by a release inside the bounds,  *)
(* in the same frame or a later one, invokes every registered click        *)
(* listener exactly once, in registration order, with down = that press    *)
(* and up = that release.                                                  *)
(***************************************************************************)
C1_PressReleaseClicks ==
    [][(/\ BubbleStep("MouseUp")
        /\ listeners # <<>>
        /\ held_press # <<>>
        /\ Inside(inflight[1]))
       => clicks' = ClickOfEach(listeners, held_press[1], inflight[1])]_vars

(***************************************************************************)
(* C2: a press inside followed by a release outside invokes no click       *)
(* listener and leaves the record empty; a later release inside that no    *)
(* new press inside precedes invokes no click listener, also when no paint *)
(* happened between the two releases.                                      *)
(***************************************************************************)
C2_CancelledClick ==
    [][BubbleStep("MouseUp")
       => /\ (held_press # <<>> /\ ~Inside(inflight[1]))
                => (clicks' = <<>> /\ Record' = <<>>)
          /\ (held_press = <<>>) => clicks' = <<>>]_vars

(***************************************************************************)
(* C3: once a press is stored in the record, the next release dispatched,  *)
(* at any position, leaves the record empty and requests a redraw; the     *)
(* record never remains set after a release has been dispatched.           *)
(***************************************************************************)
C3_ReleaseClearsRecord ==
    [][/\ (CaptureStep("MouseUp") /\ Record # <<>> /\ Record' = <<>>) => notified'
       /\ BubbleStep("MouseUp") => (Record' = <<>> /\ (Record # <<>> => notified'))]_vars

(***************************************************************************)
(* C4: the press listener stores the press in the record and requests a    *)
(* redraw if and only if the dispatch is in the bubble phase and the       *)
(* position is inside the paint bounds; otherwise the record is unchanged  *)
(* and no redraw is requested.                                             *)
(***************************************************************************)
C4_PressListener ==
    [][Registered("MouseDown")
       => /\ CaptureStep("MouseDown")
                => (cells' = cells /\ notified' = notified)
          /\ BubbleStep("MouseDown")
                => IF Inside(inflight[1])
                   THEN Record' = <<inflight[1]>> /\ notified'
                   ELSE cells' = cells /\ notified' = notified]_vars

\* a press was stored by the press listener, which is still the one registered
C4_Witness ==
    /\ Registered("MouseDown")
    /\ inflight = <<>>
    /\ Record = <<[type |-> "MouseDown", position |-> <<60, 60>>]>>
    /\ notified

(***************************************************************************)
(* C5: the hover flag is the containment the last paint computed: a paint  *)
(* sets it to the containment of the pointer position it reads, and no     *)
(* other step (a pointer-move dispatch in either phase included) changes   *)
(* the flag or the hover cascade slot.                                     *)
(***************************************************************************)
C5_HoverLag ==
    [][/\ PaintStep
            => hovered' = contains_point(IF group # <<>> /\ group_registry # <<>>
                                         THEN group_registry[1] ELSE ElementBounds,
                                         mouse_position)
       /\ ~PaintStep
            => /\ hovered' = hovered
               /\ style_cascade'[hover_slot] = style_cascade[hover_slot]]_vars

\* the pointer moved out after the paint that found it inside: the flag lags
C5_Witness ==
    /\ pc = "idle"
    /\ inflight = <<>>
    /\ group = <<>>
    /\ hovered
    /\ mouse_position = <<150, 150>>
    /\ notified

(***************************************************************************)
(* C6: after every paint the hover flag is true exactly when the pointer   *)
(* position read by that paint is inside the target bounds, and the hover  *)
(* slot holds the hover refinement exactly when the flag is true and is    *)
(* cleared otherwise; with bounds (0,0,100,100) the pointer at (150,150)   *)
(* gives flag false and no refinement, the pointer at (50,50) gives flag   *)
(* true and the refinement.                                                *)
(***************************************************************************)
C6_HoverPaint ==
    [][PaintStep
       => /\ hovered' = contains_point(IF group # <<>> /\ group_registry # <<>>
                                       THEN group_registry[1] ELSE ElementBounds,
                                       mouse_position)
          /\ style_cascade'[hover_slot] = IF hovered' THEN <<hover_style>> ELSE <<>>
          /\ (group = <<>> /\ mouse_position = <<150, 150>>)
                => (~hovered' /\ style_cascade'[hover_slot] = <<>>)
          /\ (group = <<>> /\ mouse_position = <<50, 50>>)
                => (hovered' /\ style_cascade'[hover_slot] = <<hover_style>>)]_vars

\* the last paint read the pointer at (50,50): flag true, refinement in the slot
C6_Witness ==
    /\ pc = "idle"
    /\ group = <<>>
    /\ ElementBounds = [x |-> 0, y |-> 0, w |-> 100, h |-> 100]
    /\ mouse_position = <<50, 50>>
    /\ hovered
    /\ is_some(hover_style)
    /\ style_cascade[hover_slot] = <<hover_style>>
    /\ Len(SelectSeq(paint_trace, LAMBDA e : e.op = "hovered.store")) = 1

(***************************************************************************)
(* C7: the resolved style of a layout node is never stale: whatever the    *)
(* cascade was changed to, the next read of the computed style is the      *)
(* default style refined by the cascade's current merged value.            *)
(***************************************************************************)
C7_ComputedStyleFresh ==
    ComputedStyleRead(computed_style, style_cascade)[1]
        = refined(DefaultStyle, Merged(style_cascade))

(***************************************************************************)
(* C8: the bounds used for hover containment, at paint and in the          *)
(* pointer-move listener paint registers, are the bounds registered under  *)
(* the configured group name when a group is configured and found, and the *)
(* element's own paint bounds when no group is configured or the group is  *)
(* not found; paint completes in every case.                               *)
(***************************************************************************)
C8_TargetBounds ==
    [][PaintStep
       => LET expected == IF group = <<>> THEN ElementBounds
                          ELSE IF group_registry = <<>> THEN ElementBounds
                          ELSE group_registry[1]
          IN /\ hovered' = contains_point(expected, mouse_position)
             /\ \E i \in 1..Len(mouse_listeners') :
                    /\ mouse_listeners'[i].kind = "MouseMove"
                    /\ mouse_listeners'[i].bounds = expected
             /\ \A i \in 1..Len(mouse_listeners') :
                    mouse_listeners'[i].kind = "MouseMove"
                        => mouse_listeners'[i].bounds = expected
             /\ paint_trace'[Len(paint_trace')].op
                    = IF children = <<>> THEN "styled.child.paint" ELSE "child.paint"]_vars

\* a group is configured but was not found at the last paint: own bounds used
C8_Witness ==
    /\ pc = "idle"
    /\ group = <<"g">>
    /\ hovered
    /\ \E i \in 1..Len(mouse_listeners) :
           /\ mouse_listeners[i].kind = "MouseMove"
           /\ mouse_listeners[i].bounds = ElementBounds

(***************************************************************************)
(* C9: layout of a layout node lays out each child exactly once, in        *)
(* child-list order (the order child/children appended them), then         *)
(* requests exactly one layout id for itself with the child layout ids in  *)
(* that order; with no children the id list is empty and paint delegates   *)
(* to no child; paint paints each child exactly once in child-list order.  *)
(***************************************************************************)
C9_ChildOrder ==
    LET lay == SelectSeq(layout_trace, LAMBDA e : e.op = "child.layout")
        req == SelectSeq(layout_trace, LAMBDA e : e.op = "request_layout")
        pnt == SelectSeq(paint_trace, LAMBDA e : e.op = "child.paint")
    IN /\ children = [i \in 1..Len(children) |-> i]
       /\ layout_trace # <<>>
            => /\ Len(lay) = Len(children)
               /\ \A i \in 1..Len(lay) : lay[i].child = children[i]
               /\ Len(req) = 1
               /\ layout_trace[Len(layout_trace)] = req[1]
               /\ Len(req[1].layout_ids) = Len(children)
               /\ \A i \in 1..Len(children) :
                      /\ req[1].layout_ids[i] = lay[i].layout_id
                      /\ req[1].layout_ids[i] = <<"layout_id", children[i]>>
               /\ children = <<>> => req[1].layout_ids = <<>>
       /\ paint_trace # <<>>
            => /\ Len(pnt) = Len(children)
               /\ \A i \in 1..Len(pnt) : pnt[i].child = children[i]

\* a node with two children was laid out and painted
C9_Witness ==
    /\ pc = "idle"
    /\ Len(children) >= 2
    /\ Len(SelectSeq(layout_trace, LAMBDA e : e.op = "child.layout")) >= 2
    /\ Len(SelectSeq(paint_trace, LAMBDA e : e.op = "child.paint")) >= 2

(***************************************************************************)
(* The cascade alone: any slot set to any refinement, or cleared           *)
(***************************************************************************)
CascadeSlots == 1..3

InitCascade ==
    /\ pc = "build"
    /\ children = <<>>
    /\ listeners = <<>>
    /\ hover_style = EmptyRefinement
    /\ active_style = EmptyRefinement
    /\ group = <<>>
    /\ hover_slot = 1
    /\ click_slot = 2
    /\ style_cascade = [s \in CascadeSlots |-> <<>>]
    /\ computed_style = <<>>
    /\ hovered = FALSE
    /\ element_state = <<>>
    /\ cells = <<>>
    /\ mouse_listeners = <<>>
    /\ mouse_position = <<50, 50>>
    /\ group_registry = <<>>
    /\ inflight = <<>>
    /\ held_press = <<>>
    /\ notified = FALSE
    /\ clicks = <<>>
    /\ layout_trace = <<>>
    /\ paint_trace = <<>>
    /\ InitRecordAccess

\* StyleCascade::set
set(slot, value) ==
    /\ style_cascade' = CascadeSet(style_cascade, slot, value)
    /\ UNCHANGED <<lock_vars, pc, children, listeners, hover_style, active_style, group,
                   hover_slot, click_slot, computed_style, hovered,
                   element_state, cells, mouse_listeners, mouse_position,
                   group_registry, inflight, held_press, notified, clicks,
                   layout_trace, paint_trace>>

NextCascade ==
    \E slot \in CascadeSlots :
        \E value \in {<<>>} \cup {<<r>> : r \in StyleRefinements} :
            set(slot, value)

SpecCascade == InitCascade /\ [][NextCascade]_vars

(***************************************************************************)
(* C10: after any sequence of set(slot, refinement-or-clear) calls,        *)
(* merged() is the result of applying the non-cleared slots' refinements   *)
(* in increasing slot order: each field has the value of the highest slot  *)
(* that sets it and is unset when no slot sets it; a cleared slot          *)
(* contributes nothing, and setting a slot again overwrites its previous   *)
(* contribution without adding an entry.                                   *)
(***************************************************************************)
C10_MergedInSlotOrder ==
    /\ DOMAIN style_cascade = CascadeSlots
    /\ \A f \in Fields :
          LET setters == {s \in CascadeSlots :
                             /\ style_cascade[s] # <<>>
                             /\ style_cascade[s][1][f] # Unset}
          IN Merged(style_cascade)[f]
                = IF setters = {} THEN Unset
                  ELSE style_cascade[CHOOSE s \in setters :
                                        \A t \in setters : t <= s][1][f]

\* slot 1 and slot 3 overlap on a field, slot 2 was cleared: slot 3 wins
C10_Witness ==
    /\ style_cascade[1] = <<[background |-> "hover", border |-> "hover"]>>
    /\ style_cascade[2] = <<>>
    /\ style_cascade[3] = <<[background |-> "active", border |-> Unset]>>
    /\ Merged(style_cascade) = [background |-> "active", border |-> "hover"]

(***************************************************************************)
(* C11: the pointer-move listener requests a redraw if and only if the     *)
(* dispatch is in the capture phase and the containment of the event       *)
(* position in the target bounds differs from the stored hover flag; a     *)
(* move that leaves containment unchanged, or a bubble-phase dispatch,     *)
(* requests no redraw.                                                     *)
(***************************************************************************)
\* the target bounds the registered move listener captured
MoveTarget ==
    LET i == CHOOSE i \in 1..Len(mouse_listeners) : mouse_listeners[i].kind = "MouseMove"
    IN mouse_listeners[i].bounds

C11_MoveListener ==
    [][Registered("MouseMove")
       => /\ CaptureStep("MouseMove")
                => notified' = (notified \/ (contains_point(MoveTarget, inflight'[1].position)
                                             # hovered))
          /\ BubbleStep("MouseMove") => notified' = notified]_vars

\* the capture phase of a move that changes containment requested the redraw
C11_Witness ==
    /\ inflight # <<>>
    /\ inflight[1].type = "MouseMove"
    /\ Registered("MouseMove")
    /\ contains_point(MoveTarget, inflight[1].position) # hovered
    /\ notified
    /\ Record = <<>>
    /\ ~Registered("MouseUp")

(***************************************************************************)
(* C12: at each paint of the clickable wrapper, with no click listener and *)
(* no active style no mouse listener is registered by it; otherwise        *)
(* exactly one is, a release listener when the record is non-empty at      *)
(* paint time and a press listener when it is empty, never both; in every  *)
(* case the child is painted afterwards with the same bounds.              *)
(***************************************************************************)
C12_OneListenerPerPaint ==
    [][PaintStep
       => LET mine == SelectSeq(mouse_listeners', LAMBDA l : l.kind # "MouseMove")
              regs == {i \in 1..Len(paint_trace') :
                          /\ paint_trace'[i].op = "on_mouse_event"
                          /\ paint_trace'[i].kind # "MouseMove"}
              kids == {i \in 1..Len(paint_trace') :
                          paint_trace'[i].op = "clickable.child.paint"}
          IN /\ (listeners = <<>> /\ active_style = EmptyRefinement)
                    => (mine = <<>> /\ regs = {})
             /\ (listeners # <<>> \/ active_style # EmptyRefinement)
                    => /\ Len(mine) = 1
                       /\ Cardinality(regs) = 1
                       /\ mine[1].kind = IF Record # <<>> THEN "MouseUp" ELSE "MouseDown"
                       /\ \A i \in regs : paint_trace'[i].kind = mine[1].kind
             /\ Cardinality(kids) = 1
             /\ \A k \in kids :
                    /\ paint_trace'[k].bounds = ElementBounds
                    /\ \A i \in regs : i < k]_vars

\* only an active style is configured and the record held a press at the last paint
C12_Witness ==
    /\ pc = "idle"
    /\ listeners = <<>>
    /\ is_some(active_style)
    /\ Registered("MouseUp")
    /\ ~Registered("MouseDown")

(***************************************************************************)
(* C13: the mouse-down record survives frame boundaries: layout given the  *)
(* prior per-identity state returns a state sharing the same record and    *)
(* lays the child out with the prior child state; layout never changes the *)
(* record's content; with no prior state the returned state has a fresh    *)
(* empty record and the child is laid out with no prior state.             *)
(***************************************************************************)
C13_RecordSurvivesFrames ==
    [][LayoutStep
       => LET child_calls == SelectSeq(layout_trace',
                                       LAMBDA e : e.op = "clickable.child.layout")
          IN /\ Len(child_calls) = 1
             /\ element_state' # <<>>
             /\ IF element_state # <<>>
                THEN /\ element_state'[1].mouse_down = element_state[1].mouse_down
                     /\ cells' = cells
                     /\ Record' = Record
                     /\ child_calls[1].prior = <<element_state[1].child_state>>
                ELSE /\ element_state'[1].mouse_down \notin DOMAIN cells
                     /\ element_state'[1].mouse_down \in DOMAIN cells'
                     /\ Record' = <<>>
                     /\ \A c \in DOMAIN cells : cells'[c] = cells[c]
                     /\ child_calls[1].prior = <<>>]_vars

\* the press stored by the previous frame's listener is in the state this layout returned
C13_Witness ==
    /\ pc = "laidout"
    /\ Record = <<[type |-> "MouseDown", position |-> <<60, 60>>]>>
    /\ Registered("MouseDown")
    /\ \E i \in 1..Len(layout_trace) :
           /\ layout_trace[i].op = "clickable.child.layout"
           /\ layout_trace[i].prior = <<"unit">>

(***************************************************************************)
(* C14: at layout the clickable wrapper writes the active refinement into  *)
(* its cascade slot exactly when prior state exists and its record is      *)
(* non-empty, and does so before the child's layout runs; in a frame where *)
(* the record is empty at layout and at paint the wrapper writes nothing   *)
(* to its slot.                                                            *)
(***************************************************************************)
C14_ActiveStyleWrite ==
    [][/\ LayoutStep
            => LET writes == {i \in 1..Len(layout_trace') :
                                 /\ layout_trace'[i].op = "cascade.set"
                                 /\ layout_trace'[i].slot = click_slot}
                   kid == CHOOSE i \in 1..Len(layout_trace') :
                              layout_trace'[i].op = "clickable.child.layout"
               IN /\ (writes # {}) <=> (element_state # <<>> /\ Record # <<>>)
                  /\ Cardinality(writes) <= 1
                  /\ \A i \in writes : /\ layout_trace'[i].value = <<active_style>>
                                       /\ i < kid
                  /\ writes # {} => style_cascade'[click_slot] = <<active_style>>
                  /\ writes = {} => style_cascade' = style_cascade
       /\ (PaintStep /\ Record = <<>>)
            => /\ \A i \in 1..Len(paint_trace') :
                      paint_trace'[i].op = "cascade.set"
                          => paint_trace'[i].slot # click_slot
               /\ style_cascade'[click_slot] = style_cascade[click_slot]]_vars

\* a layout found the press of the previous frame and wrote the active refinement
C14_Witness ==
    /\ pc = "laidout"
    /\ Record # <<>>
    /\ is_some(active_style)
    /\ layout_trace[1].op = "cascade.set"
    /\ layout_trace[1].slot = click_slot
    /\ layout_trace[2].op = "clickable.child.layout"
    /\ style_cascade[click_slot] = <<active_style>>

ReleaseCaptured ==
    LET i == CHOOSE i \in 1..Len(mouse_listeners) : mouse_listeners[i].kind = "MouseUp"
    IN mouse_listeners[i].mouse_down

C16_ClicksOnlyFromRelease ==
    [][/\ (clicks' # clicks /\ clicks' # <<>>)
            => /\ BubbleStep("MouseUp")
               /\ Inside(inflight[1])
               /\ Registered("MouseUp")
               /\ \A i \in 1..Len(clicks') :
                      /\ <<clicks'[i].down>> = ReleaseCaptured
                      /\ clicks'[i].up = inflight[1]
       /\ PaintStep
            => LET ups == SelectSeq(mouse_listeners', LAMBDA l : l.kind = "MouseUp")
               IN /\ ups # <<>> => (Record # <<>> /\ Len(ups) = 1)
                  /\ \A i \in 1..Len(ups) : ups[i].mouse_down = Record
       /\ CaptureStep("MouseUp")
            => /\ clicks' = <<>>
               /\ Registered("MouseUp") => Record' = <<>>]_vars

\* a release delivered the click of the press captured at the last paint to two listeners
C16_Witness ==
    /\ inflight = <<>>
    /\ Registered("MouseUp")
    /\ Len(clicks) = 2
    /\ <<clicks[1].down>> = ReleaseCaptured
    /\ clicks[1].up.type = "MouseUp"
    /\ Record = <<>>

(***************************************************************************)
(* Access to the mouse-down record, at the granularity of the mutex        *)
(*                                                                         *)
(* Each code path that reaches the record is the sequence of its steps:    *)
(* "lock" and "unlock" are the creation and the drop of the MutexGuard,    *)
(* "read" copies the words of the record, "write_x", "write_y", "clear_x"  *)
(* and "clear_y" store one word each, the other steps are the calls the    *)
(* path makes.  The guard of an `if` condition is dropped before the       *)
(* block (line 299); the guard of an `if let` scrutinee lives to the end   *)
(* of the `if let`/`else` (lines 335-366).  The call stacks interleave     *)
(* step by step.                                                           *)
(***************************************************************************)
PressEvents == {e \in Events : e.type = "MouseDown"}
ReleaseEvents == {e \in Events : e.type = "MouseUp"}
Phases == {"Capture", "Bubble"}

\* the values a read may return: None or Some of one press event
CompleteWords == {EmptyWords} \cup {PressWords(e) : e \in PressEvents}

\* ClickableElement::layout up to the read of the record, lines 298-299, 316
LayoutProgram(prior) ==
    IF prior THEN <<"lock", "read">> ELSE <<"child_layout">>

\* ClickableElement::layout after the read, lines 299-307
LayoutRest(value) ==
    <<"unlock">> \o (IF value # EmptyWords THEN <<"set_active">> ELSE <<>>)
                 \o <<"child_layout">>

\* ClickableElement::paint up to the read of the record, lines 334-335, 369
PaintProgram(guarded) ==
    IF guarded THEN <<"lock", "read">> ELSE <<"child_paint">>

\* mutant: the guard lives to the end of paint
PaintRest_GuardOutlivesPaint(value) ==
    (IF value # EmptyWords
     THEN <<"set_active", "register_release">>
     ELSE <<"register_press">>) \o <<"child_paint", "unlock">>

\* ClickableElement::paint after the read, lines 335-370
PaintRest(value) ==
    (IF value # EmptyWords
     THEN <<"set_active", "register_release">>
     ELSE <<"register_press">>) \o <<"unlock", "child_paint">>

\* press closure, lines 360-365
PressProgram(stores) ==
    IF stores THEN <<"lock", "write_x", "write_y", "unlock", "notify">> ELSE <<>>

\* release closure, lines 341-357
ReleaseProgram(fires) ==
    (IF fires THEN <<"click_listeners">> ELSE <<>>)
        \o <<"lock", "clear_x", "clear_y", "unlock", "notify">>

\* the step a call stack is at
AtStep(t, steps) ==
    stack[t].program # <<>> /\ Head(stack[t].program) \in steps

Advance(t) == [stack EXCEPT ![t].program = Tail(@)]

\* the window runs a frame: layout, then paint, of the same element identity
FrameCall ==
    /\ stack["frame"].program = <<>>
    /\ \E guarded \in BOOLEAN :
           stack' = [stack EXCEPT !["frame"] =
               IF @.path = "layout"
               THEN [path |-> "paint", program |-> PaintProgram(guarded), event |-> <<>>]
               ELSE [path |-> "layout", program |-> LayoutProgram(@.path # "none"),
                     event |-> <<>>]]
    /\ UNCHANGED <<element_vars, lock_owner, words, observed, registered>>

\* an event dispatch invokes the press closure the last paint registered
PressCall ==
    /\ stack["press"].program = <<>>
    /\ registered = "MouseDown"
    /\ \E down \in PressEvents, phase \in Phases :
           stack' = [stack EXCEPT !["press"] =
               [path |-> "press",
                program |-> PressProgram(PressStores(ElementBounds, down, phase)),
                event |-> <<down>>]]
    /\ UNCHANGED <<element_vars, lock_owner, words, observed, registered>>

\* an event dispatch invokes the release closure the last paint registered
ReleaseCall ==
    /\ stack["release"].program = <<>>
    /\ registered = "MouseUp"
    /\ \E up \in ReleaseEvents, phase \in Phases :
           stack' = [stack EXCEPT !["release"] =
               [path |-> "release",
                program |-> ReleaseProgram(ReleaseFires(ElementBounds, up, phase)),
                event |-> <<up>>]]
    /\ UNCHANGED <<element_vars, lock_owner, words, observed, registered>>

\* Mutex::lock, lines 299, 335, 355, 362: blocks while the mutex is held
Lock(t) ==
    /\ AtStep(t, {"lock"})
    /\ lock_owner = <<>>
    /\ lock_owner' = <<t>>
    /\ stack' = Advance(t)
    /\ UNCHANGED <<element_vars, words, observed, registered>>

\* drop of the MutexGuard
Unlock(t) ==
    /\ AtStep(t, {"unlock"})
    /\ lock_owner' = IF lock_owner = <<t>> THEN <<>> ELSE lock_owner
    /\ stack' = Advance(t)
    /\ UNCHANGED <<element_vars, words, observed, registered>>

\* is_some() of line 299 and clone() of line 335
Read(t) ==
    /\ AtStep(t, {"read"})
    /\ observed' = [observed EXCEPT ![t] = <<words>>]
    /\ stack' = [stack EXCEPT ![t].program =
                    IF stack[t].path = "layout" THEN LayoutRest(words)
                                                ELSE PaintRest(words)]
    /\ UNCHANGED <<element_vars, lock_owner, words, registered>>

\* the stores of line 362 (Some(down.clone())) and of line 355 (take())
Write(t) ==
    /\ AtStep(t, {"write_x", "write_y", "clear_x", "clear_y"})
    /\ LET step == Head(stack[t].program)
           new == IF step \in {"write_x", "write_y"}
                  THEN PressWords(stack[t].event[1]) ELSE EmptyWords
           i == IF step \in {"write_x", "clear_x"} THEN 1 ELSE 2
       IN words' = [words EXCEPT ![i] = new[i]]
    /\ stack' = Advance(t)
    /\ UNCHANGED <<element_vars, lock_owner, observed, registered>>

\* cx.on_mouse_event of lines 341 and 360
Register(t) ==
    /\ AtStep(t, {"register_release", "register_press"})
    /\ registered' = IF Head(stack[t].program) = "register_release"
                     THEN "MouseUp" ELSE "MouseDown"
    /\ stack' = Advance(t)
    /\ UNCHANGED <<element_vars, lock_owner, words, observed>>

\* the calls that do not reach the record: the click listeners, the child's
\* layout and paint, style_cascade().set and cx.notify()
Run(t) ==
    /\ AtStep(t, {"click_listeners", "child_layout", "child_paint",
                  "set_active", "notify"})
    /\ stack' = Advance(t)
    /\ UNCHANGED <<element_vars, lock_owner, words, observed, registered>>

NextLock ==
    \/ FrameCall
    \/ PressCall
    \/ ReleaseCall
    \/ \E t \in Stacks : Lock(t)
    \/ \E t \in Stacks : Unlock(t)
    \/ \E t \in Stacks : Read(t)
    \/ \E t \in Stacks : Write(t)
    \/ \E t \in Stacks : Register(t)
    \/ \E t \in Stacks : Run(t)

SpecLock == Init /\ [][NextLock]_vars

(***************************************************************************)
(* C17: access to the mouse-down record is deadlock-free and race-free:    *)
(* no code path acquires the record's lock while already holding it (and   *)
(* none returns holding it, so a waiting path is always let in), the lock  *)
(* is not held by the path that runs a click listener, a child layout or a *)
(* child paint, the words of the record are read and written only under    *)
(* the lock, and with the press closure, the release closure and           *)
(* layout/paint interleaved, every read returns empty or one complete      *)
(* press event.                                                            *)
(***************************************************************************)
C17_RecordAccess ==
    \A t \in Stacks :
        /\ AtStep(t, {"lock"}) => lock_owner # <<t>>
        /\ lock_owner = <<t>>
               => AtStep(t, {"read"}) \/ "unlock" \in Range(stack[t].program)
        /\ AtStep(t, {"click_listeners", "child_layout", "child_paint"})
               => lock_owner # <<t>>
        /\ AtStep(t, {"read", "write_x", "write_y", "clear_x", "clear_y"})
               => lock_owner = <<t>>
        /\ observed[t] # <<>> => observed[t][1] \in CompleteWords

\* the press closure is halfway through its store, the frame and the release
\* closure wait for the lock, and the frame has read a complete press before
C17_Witness ==
    /\ lock_owner = <<"press">>
    /\ words \notin CompleteWords
    /\ AtStep("frame", {"lock"})
    /\ AtStep("release", {"lock"})
    /\ observed["frame"] # <<>>
    /\ observed["frame"][1] \in CompleteWords \ {EmptyWords}

====
